---- MODULE Spec2Model ----
(***************************************************************************)
(* State-machine model of segment_videos.py: the titles file (manifest)    *)
(* store VideoTitles, the batch loop split_videos, the menu and main.      *)
(* The external tool ffmpeg and shutil.move are environment choices.       *)
(***************************************************************************)
EXTENDS Integers, Sequences, FiniteSets, TLC

\* ------------------------------------------------------------------ bounds
\* Longest titles file (number of entries) the initial states draw.
MaxEntries == 3
\* Number of times option 2 (split_videos) may be chosen in one session.
MaxRuns == 2

\* Largest segment length, in minutes, given to format_time: hours reach
\* three digits.
MaxMinutes == 6059

\* The default of --segment-length (line 317).
DefaultSegmentLength == 15

\* ------------------------------------------------------------ value universe
FileNames == {"a.mp4", "b.mkv"}
\* A key that is absent from the JSON object (dict.get then gives the default).
NoKey == "<absent>"
BaseNames == {NoKey, "", "ep"}
DirectoryNames == {"", "season"}
\* The entries a titles file may hold. directory_name is only used (line 203)
\* for an entry that reaches split_video, whose base_name is not empty.
Entry ==
    {e \in [filename : FileNames, base_name : BaseNames, directory_name : DirectoryNames] :
        e.directory_name = "" \/ e.base_name = "ep"}

\* v.get(key, '') of lines 185-186.
Get(v, key) == IF v[key] = NoKey THEN "" ELSE v[key]

\* ------------------------------------------------------- titles file format
\* A file's content is a sequence of tokens: "[", one token per object, "]".
Blank == [filename |-> "", base_name |-> "", directory_name |-> ""]
OpenTok == [tok |-> "[", v |-> Blank]
CloseTok == [tok |-> "]", v |-> Blank]
ItemTok(v) == [tok |-> "{}", v |-> v]

\* json.dump(video_data, f, indent=2): the complete document.
Serialize(data) ==
    <<OpenTok>> \o [i \in 1..Len(data) |-> ItemTok(data[i])] \o <<CloseTok>>

\* Whether json.load accepts the content (a complete array of objects).
WellFormed(content) ==
    /\ Len(content) >= 2
    /\ content[1] = OpenTok
    /\ content[Len(content)] = CloseTok
    /\ \A i \in 2..(Len(content) - 1) : content[i].tok = "{}"

\* json.load on a well-formed content.
Parse(content) == [i \in 1..(Len(content) - 2) |-> content[i + 1].v]

NoFile == [exists |-> FALSE, content |-> <<>>]
FileOf(content) == [exists |-> TRUE, content |-> content]
NoDir == [exists |-> FALSE, files |-> {}]
DirOf(files) == [exists |-> TRUE, files |-> files]

\* ------------------------------------------------------------------- state
VARIABLES
    pc,              \* "main", "menu", "loop", "exited"
    exitCode,        \* process exit status once pc = "exited" (-1 while running)
    console,         \* the last report printed: [msg, processed, failed]
    folder_per_split,\* args.folder_per_split
    ffmpeg_found,    \* what check_ffmpeg() returns at startup
    segment_length,  \* args.segment_length, in minutes
    segment_time,    \* the -segment_time argument of the last ffmpeg command
    titlesFile,      \* cwd/video_titles.json
    backupFile,      \* cwd/video_titles.json.bak
    inputDir,        \* input directory: the video files in it
    splitDir,        \* split directory: [exists, dirs, segments]
    completedDir,    \* completed directory
    video_data,      \* split_videos' local list, the one the for loop iterates
    self_video_data, \* titles_manager.video_data
    idx,             \* position of the for loop in video_data (1-based)
    processed,       \* split_videos' counter
    failed,          \* split_videos' counter
    atLoad,          \* history: the persisted state when the current run began
    trace,           \* history: one record per entry the loop has visited
    runsLog          \* history: one record per finished call of split_videos

vars == <<pc, exitCode, console, folder_per_split, ffmpeg_found,
          segment_length, segment_time, titlesFile, backupFile,
          inputDir, splitDir, completedDir, video_data, self_video_data, idx,
          processed, failed, atLoad, trace, runsLog>>

Persisted ==
    [titles |-> titlesFile, backup |-> backupFile, input |-> inputDir,
     split |-> splitDir, completed |-> completedDir]

Report(msg, p, f) == [msg |-> msg, processed |-> p, failed |-> f]

\* Every titles file of at most MaxEntries entries.
Manifests == UNION {[1..n -> Entry] : n \in 0..MaxEntries}

NoSplit == [exists |-> FALSE, dirs |-> {}, segments |-> {}]

Init ==
    /\ pc = "main"
    /\ exitCode = -1
    /\ console = Report("", 0, 0)
    /\ folder_per_split \in BOOLEAN
    /\ ffmpeg_found \in BOOLEAN
    /\ segment_length = DefaultSegmentLength
    /\ segment_time = <<>>
    /\ titlesFile \in {NoFile, FileOf(<<>>)} \cup {FileOf(Serialize(m)) : m \in Manifests}
    /\ backupFile = NoFile
    /\ inputDir \in {NoDir} \cup {DirOf(s) : s \in SUBSET FileNames}
    /\ splitDir = NoSplit
    /\ completedDir = NoDir
    /\ video_data = <<>>
    /\ self_video_data = <<>>
    /\ idx = 1
    /\ processed = 0
    /\ failed = 0
    /\ atLoad = Persisted
    /\ trace = <<>>
    /\ runsLog = <<>>

\* ------------------------------------------------------------- format_time
\* A string is modelled as the sequence of its characters.
DigitChar == <<"0", "1", "2", "3", "4", "5", "6", "7", "8", "9">>

\* str(n) for n >= 0: the decimal digits of n.
RECURSIVE Decimal(_)
Decimal(n) ==
    IF n < 10 THEN <<DigitChar[n + 1]>>
    ELSE Decimal(n \div 10) \o <<DigitChar[(n % 10) + 1]>>

\* The format specification :02d for n >= 0: zero-padded to width two.
\* Format02d without the zero padding.
Format02dUnpadded(n) == Decimal(n)

Format02d(n) == IF n < 10 THEN <<"0">> \o Decimal(n) ELSE Decimal(n)

\* format_time (lines 105-109).
format_time(minutes) ==
    LET hours == minutes \div 60
        mins == minutes % 60
    IN Format02d(hours) \o <<":">> \o Format02d(mins) \o <<":", "0", "0">>

\* ------------------------------------------------------------ VideoTitles
\* VideoTitlesInit writing the backup only when there is none yet.
VideoTitlesInitKeepsBackup(file, backup) ==
    IF ~file.exists
    THEN [raised |-> "FileNotFoundError", video_data |-> <<>>, backup |-> backup]
    ELSE IF ~WellFormed(file.content)
    THEN [raised |-> "JSONDecodeError", video_data |-> <<>>, backup |-> backup]
    ELSE [raised |-> "none", video_data |-> Parse(file.content),
          backup |-> IF backup.exists THEN backup ELSE FileOf(file.content)]

\* VideoTitles.__init__ (lines 68-83): what it raises, the list it loads and
\* the backup file it leaves, given the titles file and the backup before it.
VideoTitlesInit(file, backup) ==
    IF ~file.exists
    THEN [raised |-> "FileNotFoundError", video_data |-> <<>>, backup |-> backup]
    ELSE IF ~WellFormed(file.content)
    THEN [raised |-> "JSONDecodeError", video_data |-> <<>>, backup |-> backup]
    ELSE [raised |-> "none", video_data |-> Parse(file.content),
          backup |-> FileOf(file.content)]

\* Remaining with only the first matching entry taken out.
RemainingButFirst(data, filename) ==
    LET ms == {n \in 1..Len(data) : data[n].filename = filename} IN
    IF ms = {} THEN data
    ELSE LET n == CHOOSE m \in ms : \A o \in ms : m <= o IN
         SubSeq(data, 1, n - 1) \o SubSeq(data, n + 1, Len(data))

\* The list comprehension of line 92.
Remaining(data, filename) == SelectSeq(data, LAMBDA v : v.filename # filename)

\* Removed with the comparison turned round: never true, nothing is saved.
RemovedGrew(before, after) == Len(after) > Len(before)

\* Removed with <= for <: always true, every call saves.
RemovedOrSame(before, after) == Len(after) <= Len(before)

\* The test of line 94: whether delete_entry saves and returns True.
Removed(before, after) == Len(after) < Len(before)

\* VideoTitles._save (lines 99-102) when the write completes.
save(data) == FileOf(Serialize(data))

\* What a failed _save can leave in the titles file: open(path, 'w') raised
\* (the file is as before) or the file was truncated and a strict prefix of
\* the document reached it before the write raised.
FailedWrites(file, data) ==
    {file} \cup {FileOf(SubSeq(Serialize(data), 1, k)) : k \in 0..(Len(Serialize(data)) - 1)}

\* delete_entry without the _save call of line 95: the write is left to later.
delete_entry_unsaved(data, file, filename) ==
    LET kept == Remaining(data, filename) IN
    IF Removed(data, kept)
    THEN [video_data |-> kept, file |-> file, ret |-> "True", wrote |-> FALSE]
    ELSE [video_data |-> kept, file |-> file, ret |-> "False", wrote |-> FALSE]

\* delete_entry saving before it filters: the file gets the list as it was.
delete_entry_saves_old(data, file, filename) ==
    LET kept == Remaining(data, filename) IN
    IF Removed(data, kept)
    THEN [video_data |-> kept, file |-> save(data), ret |-> "True", wrote |-> TRUE]
    ELSE [video_data |-> kept, file |-> file, ret |-> "False", wrote |-> FALSE]

\* VideoTitles.delete_entry (lines 89-97) on the list `data` with titles file
\* `file`: the new list, the file afterwards, the return value, whether it wrote.
delete_entry(data, file, filename) ==
    LET kept == Remaining(data, filename) IN
    IF Removed(data, kept)
    THEN [video_data |-> kept, file |-> save(kept), ret |-> "True", wrote |-> TRUE]
    ELSE [video_data |-> kept, file |-> file, ret |-> "False", wrote |-> FALSE]

\* ------------------------------------------------------------ split_videos
\* Lines 201-208: the output directory, as a path below the split directory.
OutputDir(v, per_split) ==
    IF per_split
    THEN IF Get(v, "directory_name") # ""
         THEN <<Get(v, "directory_name")>>
         ELSE <<Get(v, "base_name")>>
    ELSE <<>>

\* split_video's effect on the split directory: mkdir of the output directory
\* (line 117) and, when ffmpeg succeeds, the segments it writes there.
SplitDirAfter(dir, v, per_split, success) ==
    [exists |-> TRUE,
     dirs |-> dir.dirs \cup {<<>>, OutputDir(v, per_split)},
     segments |-> IF success
                  THEN dir.segments \cup
                       {[dir |-> OutputDir(v, per_split), base_name |-> Get(v, "base_name")]}
                  ELSE dir.segments]

\* shutil.move(video_path, completed_dir / filename) when it succeeds.
MovedFrom(dir, filename) == DirOf(dir.files \ {filename})
MovedTo(dir, filename) == DirOf(dir.files \cup {filename})

\* The destination directory after a shutil.move that raised: os.rename did
\* nothing, and the fallback (copy, then unlink of the source) either did not
\* copy or left its copy behind when the unlink raised. The source stays.
MoveFailedLeaves(dir, filename) == {dir, MovedTo(dir, filename)}

\* History record of one loop iteration: the entry, how it ended, how often
\* subprocess.run (line 140) was called for it, what the last delete_entry
\* returned and whether _save was called.
Visit(outcome, ffmpeg, ret, wrote) ==
    [i |-> idx, filename |-> video_data[idx].filename, outcome |-> outcome,
     ffmpeg |-> ffmpeg, ret |-> ret, wrote |-> wrote]

RunRecord(msg, p, f, end) ==
    [start |-> atLoad, end |-> end, msg |-> msg, loaded |-> Len(video_data),
     processed |-> p, failed |-> f]

InLoop == pc = "loop" /\ idx <= Len(video_data)
SourceExists == video_data[idx].filename \in inputDir.files
HasBaseName == Get(video_data[idx], "base_name") # ""

\* ------------------------------------------------------------------- main
\* Lines 286-289: ffmpeg is not available.
MainFfmpegMissing ==
    /\ pc = "main"
    /\ ~ffmpeg_found
    /\ pc' = "exited"
    /\ exitCode' = 1
    /\ console' = Report("ffmpeg_missing", 0, 0)
    /\ UNCHANGED <<ffmpeg_found, segment_length, segment_time, folder_per_split, titlesFile, backupFile, inputDir, splitDir,
                   completedDir, video_data, self_video_data, idx, processed,
                   failed, atLoad, trace, runsLog>>

\* Lines 329-332: ffmpeg is available, the input directory is not a directory.
MainInputDirInvalid ==
    /\ pc = "main"
    /\ ffmpeg_found
    /\ ~inputDir.exists
    /\ pc' = "exited"
    /\ exitCode' = 1
    /\ console' = Report("input_dir_missing", 0, 0)
    /\ UNCHANGED <<ffmpeg_found, segment_length, segment_time, folder_per_split, titlesFile, backupFile, inputDir, splitDir,
                   completedDir, video_data, self_video_data, idx, processed,
                   failed, atLoad, trace, runsLog>>

\* MainMenu without the check of lines 286-289.
MainMenuUnchecked ==
    /\ pc = "main"
    /\ inputDir.exists
    /\ pc' = "menu"
    /\ UNCHANGED <<ffmpeg_found, segment_length, segment_time, exitCode, console,
                   folder_per_split, titlesFile, backupFile, inputDir, splitDir,
                   completedDir, video_data, self_video_data, idx, processed,
                   failed, atLoad, trace, runsLog>>

\* Line 334: ffmpeg is available and the input directory exists.
MainMenu ==
    /\ pc = "main"
    /\ ffmpeg_found
    /\ inputDir.exists
    /\ pc' = "menu"
    /\ UNCHANGED <<ffmpeg_found, segment_length, segment_time, exitCode, console, folder_per_split, titlesFile, backupFile,
                   inputDir, splitDir, completedDir, video_data, self_video_data,
                   idx, processed, failed, atLoad, trace, runsLog>>

\* ------------------------------------------------------- interactive_menu
\* Option 3 (lines 276-278).
MenuExit ==
    /\ pc = "menu"
    /\ pc' = "exited"
    /\ exitCode' = 0
    /\ console' = Report("exiting", 0, 0)
    /\ UNCHANGED <<ffmpeg_found, segment_length, segment_time, folder_per_split, titlesFile, backupFile, inputDir, splitDir,
                   completedDir, video_data, self_video_data, idx, processed,
                   failed, atLoad, trace, runsLog>>

CanRun == pc = "menu" /\ Len(runsLog) < MaxRuns

\* TitlesNotFound with the directories of lines 176-178 made before the load.
TitlesNotFoundMakesDirs ==
    /\ CanRun
    /\ VideoTitlesInit(titlesFile, backupFile).raised = "FileNotFoundError"
    /\ console' = Report("titles_not_found", 0, 0)
    /\ atLoad' = Persisted
    /\ video_data' = <<>>
    /\ self_video_data' = <<>>
    /\ trace' = <<>>
    /\ idx' = 1
    /\ splitDir' = [splitDir EXCEPT !.exists = TRUE, !.dirs = @ \cup {<<>>}]
    /\ completedDir' = DirOf(completedDir.files)
    /\ runsLog' = Append(runsLog,
                         [start |-> Persisted, end |-> Persisted,
                          msg |-> "titles_not_found", loaded |-> 0,
                          processed |-> 0, failed |-> 0])
    /\ UNCHANGED <<ffmpeg_found, segment_length, segment_time, pc, exitCode,
                   folder_per_split, titlesFile, backupFile, inputDir,
                   processed, failed>>

\* Option 2, lines 160-168: the titles file is absent.
TitlesNotFound ==
    /\ CanRun
    /\ VideoTitlesInit(titlesFile, backupFile).raised = "FileNotFoundError"
    /\ console' = Report("titles_not_found", 0, 0)
    /\ atLoad' = Persisted
    /\ video_data' = <<>>
    /\ self_video_data' = <<>>
    /\ trace' = <<>>
    /\ idx' = 1
    /\ runsLog' = Append(runsLog,
                         [start |-> Persisted, end |-> Persisted,
                          msg |-> "titles_not_found", loaded |-> 0,
                          processed |-> 0, failed |-> 0])
    /\ UNCHANGED <<ffmpeg_found, segment_length, segment_time, pc, exitCode, folder_per_split, titlesFile, backupFile,
                   inputDir, splitDir, completedDir, processed, failed>>

\* Option 2, line 78: json.load raises, which nothing catches.
TitlesInvalid ==
    /\ CanRun
    /\ VideoTitlesInit(titlesFile, backupFile).raised = "JSONDecodeError"
    /\ pc' = "exited"
    /\ exitCode' = 1
    /\ console' = Report("traceback", 0, 0)
    /\ atLoad' = Persisted
    /\ video_data' = <<>>
    /\ self_video_data' = <<>>
    /\ trace' = <<>>
    /\ idx' = 1
    /\ runsLog' = Append(runsLog,
                         [start |-> Persisted, end |-> Persisted,
                          msg |-> "traceback", loaded |-> 0,
                          processed |-> 0, failed |-> 0])
    /\ UNCHANGED <<ffmpeg_found, segment_length, segment_time, folder_per_split, titlesFile, backupFile, inputDir, splitDir,
                   completedDir, processed, failed>>

\* NoVideos without the early return of lines 172-174: the directories are
\* made, the empty loop runs and the summary is printed.
NoVideosRunsLoop ==
    /\ CanRun
    /\ LET t == VideoTitlesInit(titlesFile, backupFile) IN
        /\ t.raised = "none"
        /\ t.video_data = <<>>
        /\ backupFile' = t.backup
        /\ video_data' = t.video_data
        /\ self_video_data' = t.video_data
    /\ splitDir' = [splitDir EXCEPT !.exists = TRUE, !.dirs = @ \cup {<<>>}]
    /\ completedDir' = DirOf(completedDir.files)
    /\ processed' = 0
    /\ failed' = 0
    /\ idx' = 1
    /\ pc' = "loop"
    /\ atLoad' = Persisted
    /\ trace' = <<>>
    /\ UNCHANGED <<ffmpeg_found, segment_length, segment_time, exitCode, console, folder_per_split, titlesFile, inputDir, runsLog>>

\* Option 2, lines 164-174: the titles file loads and holds no entry.
NoVideos ==
    /\ CanRun
    /\ LET t == VideoTitlesInit(titlesFile, backupFile) IN
        /\ t.raised = "none"
        /\ t.video_data = <<>>
        /\ backupFile' = t.backup
        /\ video_data' = t.video_data
        /\ self_video_data' = t.video_data
        /\ runsLog' = Append(runsLog,
                             [start |-> Persisted,
                              end |-> [Persisted EXCEPT !.backup = t.backup],
                              msg |-> "no_videos", loaded |-> 0,
                              processed |-> 0, failed |-> 0])
    /\ console' = Report("no_videos", 0, 0)
    /\ atLoad' = Persisted
    /\ trace' = <<>>
    /\ idx' = 1
    /\ UNCHANGED <<ffmpeg_found, segment_length, segment_time, pc, exitCode, folder_per_split, titlesFile, inputDir, splitDir,
                   completedDir, processed, failed>>

\* Option 2, lines 164-181: the titles file loads with entries; the split and
\* completed directories are made and the counters start at zero.
StartBatch ==
    /\ CanRun
    /\ LET t == VideoTitlesInit(titlesFile, backupFile) IN
        /\ t.raised = "none"
        /\ t.video_data # <<>>
        /\ backupFile' = t.backup
        /\ video_data' = t.video_data
        /\ self_video_data' = t.video_data
    /\ splitDir' = [splitDir EXCEPT !.exists = TRUE, !.dirs = @ \cup {<<>>}]
    /\ completedDir' = DirOf(completedDir.files)
    /\ processed' = 0
    /\ failed' = 0
    /\ idx' = 1
    /\ pc' = "loop"
    /\ atLoad' = Persisted
    /\ trace' = <<>>
    /\ UNCHANGED <<ffmpeg_found, segment_length, segment_time, exitCode, console, folder_per_split, titlesFile, inputDir, runsLog>>

\* VideoNotFound with the stale entry dropped from the titles file as well.
VideoNotFoundDeletes ==
    /\ InLoop
    /\ ~SourceExists
    /\ LET d == delete_entry(self_video_data, titlesFile, video_data[idx].filename) IN
        /\ self_video_data' = d.video_data
        /\ titlesFile' = d.file
        /\ trace' = Append(trace, Visit("not_found", 0, d.ret, d.wrote))
    /\ failed' = failed + 1
    /\ idx' = idx + 1
    /\ UNCHANGED <<ffmpeg_found, segment_length, segment_time, pc, exitCode, console, folder_per_split, backupFile,
                   inputDir, splitDir, completedDir, video_data,
                   processed, atLoad, runsLog>>

\* Lines 190-193: the source file is not in the input directory.
VideoNotFound ==
    /\ InLoop
    /\ ~SourceExists
    /\ failed' = failed + 1
    /\ idx' = idx + 1
    /\ trace' = Append(trace, Visit("not_found", 0, "none", FALSE))
    /\ UNCHANGED <<ffmpeg_found, segment_length, segment_time, pc, exitCode, console, folder_per_split, titlesFile, backupFile,
                   inputDir, splitDir, completedDir, video_data, self_video_data,
                   processed, atLoad, runsLog>>

\* BaseNameEmpty with `continue` in place of sys.exit(1): the entry is counted
\* as failed and skipped.
BaseNameEmptySkips ==
    /\ InLoop
    /\ SourceExists
    /\ ~HasBaseName
    /\ failed' = failed + 1
    /\ idx' = idx + 1
    /\ trace' = Append(trace, Visit("base_name_empty", 0, "none", FALSE))
    /\ UNCHANGED <<ffmpeg_found, segment_length, segment_time, pc, exitCode, console, folder_per_split, titlesFile, backupFile,
                   inputDir, splitDir, completedDir, video_data, self_video_data,
                   processed, atLoad, runsLog>>

\* Lines 196-199: base_name is empty, sys.exit(1).
BaseNameEmpty ==
    /\ InLoop
    /\ SourceExists
    /\ ~HasBaseName
    /\ pc' = "exited"
    /\ exitCode' = 1
    /\ console' = Report("base_name_empty", 0, 0)
    /\ trace' = Append(trace, Visit("base_name_empty", 0, "none", FALSE))
    /\ runsLog' = Append(runsLog, RunRecord("base_name_empty", processed, failed, Persisted))
    /\ UNCHANGED <<ffmpeg_found, segment_length, segment_time, folder_per_split, titlesFile, backupFile, inputDir, splitDir,
                   completedDir, video_data, self_video_data, idx, processed,
                   failed, atLoad>>

\* SplitFailed with the entry deleted on failure as well (delete_entry moved
\* out of the `if success` branch).
SplitFailedDeletes ==
    /\ InLoop
    /\ SourceExists
    /\ HasBaseName
    /\ LET d == delete_entry(self_video_data, titlesFile, video_data[idx].filename) IN
        /\ self_video_data' = d.video_data
        /\ titlesFile' = d.file
        /\ \E how \in {"nonzero_exit", "launch_error"} :
            trace' = Append(trace, Visit(how, 1, d.ret, d.wrote))
    /\ splitDir' = SplitDirAfter(splitDir, video_data[idx], folder_per_split, FALSE)
    /\ failed' = failed + 1
    /\ idx' = idx + 1
    /\ segment_time' = format_time(segment_length)
    /\ UNCHANGED <<ffmpeg_found, segment_length, pc, exitCode, console, folder_per_split, backupFile,
                   inputDir, completedDir, video_data, processed, atLoad, runsLog>>

\* SplitFailed with one more attempt at an entry whose first attempt failed.
SplitFailedRetriesOnce ==
    /\ InLoop
    /\ SourceExists
    /\ HasBaseName
    /\ \E how \in {"nonzero_exit", "launch_error"} :
        trace' = Append(trace, Visit(how, 1, "none", FALSE))
    /\ splitDir' = SplitDirAfter(splitDir, video_data[idx], folder_per_split, FALSE)
    /\ IF \E m \in 1..Len(trace) : trace[m].i = idx
       THEN failed' = failed + 1 /\ idx' = idx + 1
       ELSE failed' = failed /\ idx' = idx
    /\ segment_time' = format_time(segment_length)
    /\ UNCHANGED <<ffmpeg_found, segment_length, pc, exitCode, console,
                   folder_per_split, titlesFile, backupFile, inputDir,
                   completedDir, video_data, self_video_data, processed,
                   atLoad, runsLog>>

\* Lines 211, 144-150, 231-232: ffmpeg exits non-zero or cannot be launched.
SplitFailed ==
    /\ InLoop
    /\ SourceExists
    /\ HasBaseName
    /\ \E how \in {"nonzero_exit", "launch_error"} :
        trace' = Append(trace, Visit(how, 1, "none", FALSE))
    /\ splitDir' = SplitDirAfter(splitDir, video_data[idx], folder_per_split, FALSE)
    /\ failed' = failed + 1
    /\ idx' = idx + 1
    /\ segment_time' = format_time(segment_length)
    /\ UNCHANGED <<ffmpeg_found, segment_length, pc, exitCode, console, folder_per_split, titlesFile, backupFile,
                   inputDir, completedDir, video_data, self_video_data, processed,
                   atLoad, runsLog>>

\* SplitMoved with the loop iterating the very list delete_entry shortens
\* (removal in place instead of the rebinding of line 92).
SplitMovedInPlace ==
    /\ InLoop
    /\ SourceExists
    /\ HasBaseName
    /\ LET filename == video_data[idx].filename
           d == delete_entry(self_video_data, titlesFile, filename) IN
        /\ inputDir' = MovedFrom(inputDir, filename)
        /\ completedDir' = MovedTo(completedDir, filename)
        /\ self_video_data' = d.video_data
        /\ video_data' = d.video_data
        /\ titlesFile' = d.file
        /\ trace' = Append(trace, Visit("moved", 1, d.ret, d.wrote))
    /\ splitDir' = SplitDirAfter(splitDir, video_data[idx], folder_per_split, TRUE)
    /\ processed' = processed + 1
    /\ idx' = idx + 1
    /\ segment_time' = format_time(segment_length)
    /\ UNCHANGED <<ffmpeg_found, segment_length, pc, exitCode, console,
                   folder_per_split, backupFile, failed, atLoad, runsLog>>

\* Lines 211-223: ffmpeg succeeds, the move succeeds, the entry is deleted.
SplitMoved ==
    /\ InLoop
    /\ SourceExists
    /\ HasBaseName
    /\ LET filename == video_data[idx].filename
           d == delete_entry(self_video_data, titlesFile, filename) IN
        /\ inputDir' = MovedFrom(inputDir, filename)
        /\ completedDir' = MovedTo(completedDir, filename)
        /\ self_video_data' = d.video_data
        /\ titlesFile' = d.file
        /\ trace' = Append(trace, Visit("moved", 1, d.ret, d.wrote))
    /\ splitDir' = SplitDirAfter(splitDir, video_data[idx], folder_per_split, TRUE)
    /\ processed' = processed + 1
    /\ idx' = idx + 1
    /\ segment_time' = format_time(segment_length)
    /\ UNCHANGED <<ffmpeg_found, segment_length, pc, exitCode, console, folder_per_split, backupFile, video_data,
                   failed, atLoad, runsLog>>

\* SplitMoveFailed with the failed move treated as a failure of the item: the
\* entry is kept and counted as failed.
SplitMoveFailedCountsFailed ==
    /\ InLoop
    /\ SourceExists
    /\ HasBaseName
    /\ trace' = Append(trace, Visit("move_failed", 1, "none", FALSE))
    /\ completedDir' \in MoveFailedLeaves(completedDir, video_data[idx].filename)
    /\ splitDir' = SplitDirAfter(splitDir, video_data[idx], folder_per_split, TRUE)
    /\ failed' = failed + 1
    /\ idx' = idx + 1
    /\ segment_time' = format_time(segment_length)
    /\ UNCHANGED <<ffmpeg_found, segment_length, pc, exitCode, console, folder_per_split, titlesFile, backupFile,
                   inputDir, video_data, self_video_data, processed,
                   atLoad, runsLog>>

\* SplitMoveFailed without the delete_entry of line 229: the entry is counted
\* as processed and stays in the titles file.
SplitMoveFailedKeepsEntry ==
    /\ InLoop
    /\ SourceExists
    /\ HasBaseName
    /\ trace' = Append(trace, Visit("move_failed", 1, "none", FALSE))
    /\ completedDir' \in MoveFailedLeaves(completedDir, video_data[idx].filename)
    /\ splitDir' = SplitDirAfter(splitDir, video_data[idx], folder_per_split, TRUE)
    /\ processed' = processed + 1
    /\ idx' = idx + 1
    /\ segment_time' = format_time(segment_length)
    /\ UNCHANGED <<ffmpeg_found, segment_length, pc, exitCode, console,
                   folder_per_split, titlesFile, backupFile, inputDir,
                   video_data, self_video_data, failed, atLoad, runsLog>>

\* Lines 211-217, 224-230: ffmpeg succeeds, shutil.move raises (with or
\* without a copy left in the completed directory), the entry is deleted all
\* the same.
SplitMoveFailed ==
    /\ InLoop
    /\ SourceExists
    /\ HasBaseName
    /\ LET filename == video_data[idx].filename
           d == delete_entry(self_video_data, titlesFile, filename) IN
        /\ completedDir' \in MoveFailedLeaves(completedDir, filename)
        /\ self_video_data' = d.video_data
        /\ titlesFile' = d.file
        /\ trace' = Append(trace, Visit("move_failed", 1, d.ret, d.wrote))
    /\ splitDir' = SplitDirAfter(splitDir, video_data[idx], folder_per_split, TRUE)
    /\ processed' = processed + 1
    /\ idx' = idx + 1
    /\ segment_time' = format_time(segment_length)
    /\ UNCHANGED <<ffmpeg_found, segment_length, pc, exitCode, console, folder_per_split, backupFile, inputDir,
                   video_data, failed, atLoad, runsLog>>

\* Lines 234-238: the loop is over, the summary is printed, back to the menu.
BatchDone ==
    /\ pc = "loop"
    /\ idx > Len(video_data)
    /\ pc' = "menu"
    /\ console' = Report("summary", processed, failed)
    /\ runsLog' = Append(runsLog, RunRecord("summary", processed, failed, Persisted))
    /\ UNCHANGED <<ffmpeg_found, segment_length, segment_time, exitCode, folder_per_split, titlesFile, backupFile, inputDir,
                   splitDir, completedDir, video_data, self_video_data, idx,
                   processed, failed, atLoad, trace>>

\* Lines 217-230 when _save raises inside the try block: the handler of line
\* 224 catches it, counts the entry again and calls delete_entry again, which
\* finds nothing left to remove.
SplitMovedSaveFailed ==
    /\ InLoop
    /\ SourceExists
    /\ HasBaseName
    /\ LET filename == video_data[idx].filename
           kept == Remaining(self_video_data, filename)
           again == delete_entry(kept, titlesFile', filename) IN
        /\ Removed(self_video_data, kept)
        /\ inputDir' = MovedFrom(inputDir, filename)
        /\ completedDir' = MovedTo(completedDir, filename)
        /\ titlesFile' \in FailedWrites(titlesFile, kept)
        /\ self_video_data' = again.video_data
        /\ trace' = Append(trace, Visit("moved_save_failed", 1, again.ret, TRUE))
    /\ splitDir' = SplitDirAfter(splitDir, video_data[idx], folder_per_split, TRUE)
    /\ processed' = processed + 2
    /\ idx' = idx + 1
    /\ segment_time' = format_time(segment_length)
    /\ UNCHANGED <<ffmpeg_found, segment_length, pc, exitCode, console, folder_per_split, backupFile, video_data,
                   failed, atLoad, runsLog>>

\* Lines 224-229 when shutil.move raises and then _save raises inside the
\* handler: nothing catches it and the process ends with a traceback.
SplitMoveFailedSaveFailed ==
    /\ InLoop
    /\ SourceExists
    /\ HasBaseName
    /\ splitDir' = SplitDirAfter(splitDir, video_data[idx], folder_per_split, TRUE)
    /\ LET filename == video_data[idx].filename
           kept == Remaining(self_video_data, filename) IN
        /\ Removed(self_video_data, kept)
        /\ completedDir' \in MoveFailedLeaves(completedDir, filename)
        /\ titlesFile' \in FailedWrites(titlesFile, kept)
        /\ self_video_data' = kept
        /\ trace' = Append(trace, Visit("move_failed_save_failed", 1, "raised", TRUE))
        /\ runsLog' = Append(runsLog,
                             RunRecord("traceback", processed + 1, failed,
                                       [Persisted EXCEPT !.titles = titlesFile',
                                                         !.split = splitDir',
                                                         !.completed = completedDir']))
    /\ processed' = processed + 1
    /\ pc' = "exited"
    /\ exitCode' = 1
    /\ console' = Report("traceback", 0, 0)
    /\ segment_time' = format_time(segment_length)
    /\ UNCHANGED <<ffmpeg_found, segment_length, folder_per_split, backupFile, inputDir, video_data,
                   idx, failed, atLoad>>

\* --------------------------------------------------------------- discovery
\* Option 1 of the menu. A name is looked at character by character, so each
\* name of the input directory comes with its spelling.
UpperCase == <<"A", "B", "C", "D", "E", "F", "G", "H", "I", "J", "K", "L", "M",
               "N", "O", "P", "Q", "R", "S", "T", "U", "V", "W", "X", "Y", "Z">>
LowerCase == <<"a", "b", "c", "d", "e", "f", "g", "h", "i", "j", "k", "l", "m",
               "n", "o", "p", "q", "r", "s", "t", "u", "v", "w", "x", "y", "z">>
\* The characters of the names, in code-point order.
Alphabet == <<".">> \o DigitChar \o UpperCase \o LowerCase
Ord(c) == CHOOSE i \in 1..Len(Alphabet) : Alphabet[i] = c

\* Line 17.
VIDEO_EXTENSIONS ==
    { <<".", "m", "p", "4">>, <<".", "a", "v", "i">>, <<".", "m", "k", "v">>,
      <<".", "m", "o", "v">>, <<".", "w", "m", "v">>, <<".", "f", "l", "v">>,
      <<".", "w", "e", "b", "m">>, <<".", "m", "4", "v">>,
      <<".", "m", "p", "g">>, <<".", "m", "p", "e", "g">> }

\* What input_dir.iterdir() may yield: the two video files of FileNames, a
\* video file spelled in upper case, a text file, a subdirectory whose name
\* ends like a video, and a hidden file whose whole name is ".mp4".
SubdirNames == {"clips.mp4"}
DiscoveryNames == FileNames \cup {"B.MKV", "note.txt", ".mp4"} \cup SubdirNames
NameChars ==
    ("a.mp4" :> <<"a", ".", "m", "p", "4">>) @@
    ("b.mkv" :> <<"b", ".", "m", "k", "v">>) @@
    ("B.MKV" :> <<"B", ".", "M", "K", "V">>) @@
    ("note.txt" :> <<"n", "o", "t", "e", ".", "t", "x", "t">>) @@
    (".mp4" :> <<".", "m", "p", "4">>) @@
    ("clips.mp4" :> <<"c", "l", "i", "p", "s", ".", "m", "p", "4">>)

\* Path.is_file().
is_file(f) == f \notin SubdirNames

\* Path.suffix: the name from its last dot on, when that dot is neither the
\* first nor the last character; otherwise the empty string.
suffix(name) ==
    LET dots == {i \in 1..Len(name) : name[i] = "."} IN
    IF dots = {} THEN <<>>
    ELSE LET i == CHOOSE d \in dots : \A e \in dots : e <= d IN
         IF 1 < i /\ i < Len(name) THEN SubSeq(name, i, Len(name)) ELSE <<>>

\* str.lower() on the characters of the names.
LowerChar(c) ==
    IF \E i \in 1..26 : UpperCase[i] = c
    THEN LowerCase[CHOOSE i \in 1..26 : UpperCase[i] = c]
    ELSE c
lower(str) == [i \in 1..Len(str) |-> LowerChar(str[i])]

\* The order sorted() puts two paths of one directory in: by code point.
PathLess(a, b) ==
    \E k \in 1..Len(b) :
        /\ \A i \in 1..(k - 1) : i <= Len(a) /\ a[i] = b[i]
        /\ \/ k = Len(a) + 1
           \/ k <= Len(a) /\ Ord(a[k]) < Ord(b[k])

RECURSIVE sorted(_)
sorted(files) ==
    IF files = {} THEN <<>>
    ELSE LET first == CHOOSE f \in files :
                         \A g \in files \ {f} : PathLess(NameChars[f], NameChars[g])
         IN <<first>> \o sorted(files \ {first})

\* find_video_files with the suffix compared as spelled.
find_video_files_as_spelled(dir) ==
    sorted({f \in dir.files : is_file(f) /\ suffix(NameChars[f]) \in VIDEO_EXTENSIONS})

\* Lines 31-37.
find_video_files(dir) ==
    sorted({f \in dir.files :
               is_file(f) /\ lower(suffix(NameChars[f])) \in VIDEO_EXTENSIONS})

\* Lines 47-54: one entry per video file.
NewEntries(video_files) ==
    [i \in 1..Len(video_files) |->
        [filename |-> video_files[i], base_name |-> "", directory_name |-> ""]]

InitDiscovery ==
    /\ pc = "main"
    /\ exitCode = -1
    /\ console = Report("", 0, 0)
    /\ folder_per_split = FALSE
    /\ ffmpeg_found \in BOOLEAN
    /\ segment_length = DefaultSegmentLength
    /\ segment_time = <<>>
    /\ titlesFile \in {NoFile, FileOf(<<>>)}
                      \cup {FileOf(Serialize(m)) : m \in {n \in Manifests : Len(n) <= 1}}
    /\ backupFile = NoFile
    /\ inputDir \in {NoDir} \cup {DirOf(s) : s \in SUBSET DiscoveryNames}
    /\ splitDir = NoSplit
    /\ completedDir = NoDir
    /\ video_data = <<>>
    /\ self_video_data = <<>>
    /\ idx = 1
    /\ processed = 0
    /\ failed = 0
    /\ atLoad = Persisted
    /\ trace = <<>>
    /\ runsLog = <<>>

\* Option 1, lines 42-46: no video file in the input directory.
GenerateNoVideos ==
    /\ pc = "menu"
    /\ find_video_files(inputDir) = <<>>
    /\ console' = Report("no_video_files", 0, 0)
    /\ UNCHANGED <<pc, exitCode, folder_per_split, ffmpeg_found, segment_length,
                   segment_time, titlesFile, backupFile, inputDir, splitDir,
                   completedDir, video_data, self_video_data, idx, processed,
                   failed, atLoad, trace, runsLog>>

\* Option 1, lines 42-62: the titles file is written anew.
GenerateTitles ==
    /\ pc = "menu"
    /\ LET video_files == find_video_files(inputDir) IN
        /\ video_files # <<>>
        /\ titlesFile' = FileOf(Serialize(NewEntries(video_files)))
    /\ console' = Report("generated", 0, 0)
    /\ UNCHANGED <<pc, exitCode, folder_per_split, ffmpeg_found, segment_length,
                   segment_time, backupFile, inputDir, splitDir, completedDir,
                   video_data, self_video_data, idx, processed, failed, atLoad,
                   trace, runsLog>>

Next ==
    \/ MainFfmpegMissing
    \/ MainInputDirInvalid
    \/ MainMenu
    \/ MenuExit
    \/ GenerateNoVideos
    \/ GenerateTitles
    \/ TitlesNotFound
    \/ TitlesInvalid
    \/ NoVideos
    \/ StartBatch
    \/ VideoNotFound
    \/ BaseNameEmpty
    \/ SplitFailed
    \/ SplitMoved
    \/ SplitMoveFailed
    \/ BatchDone

Spec == Init /\ [][Next]_vars

\* One iteration of the loop of line 183, or the summary after it.
LoopStep ==
    \/ VideoNotFound
    \/ BaseNameEmpty
    \/ SplitFailed
    \/ SplitMoved
    \/ SplitMoveFailed
    \/ BatchDone

\* The program when every call made by the loop returns: ffmpeg exits (there
\* is no timeout, line 141), the move and the writes come back, so the loop
\* keeps taking steps while it has one to take.
SpecLive == Init /\ [][Next]_vars /\ WF_vars(LoopStep)

\* Option 1, lines 56-58, when the write of the titles file raises: nothing
\* catches it and the process ends with a traceback.
GenerateTitlesWriteFailed ==
    /\ pc = "menu"
    /\ LET video_files == find_video_files(inputDir) IN
        /\ video_files # <<>>
        /\ titlesFile' \in FailedWrites(titlesFile, NewEntries(video_files))
    /\ pc' = "exited"
    /\ exitCode' = 1
    /\ console' = Report("traceback", 0, 0)
    /\ UNCHANGED <<folder_per_split, ffmpeg_found, segment_length,
                   segment_time, backupFile, inputDir, splitDir, completedDir,
                   video_data, self_video_data, idx, processed, failed, atLoad,
                   trace, runsLog>>

\* The same program when a write of the titles file may fail.
NextWriteFault ==
    \/ Next
    \/ SplitMovedSaveFailed
    \/ SplitMoveFailedSaveFailed
    \/ GenerateTitlesWriteFailed

SpecWriteFault == Init /\ [][NextWriteFault]_vars

\* ---------------------------------------------- format_time on every input
\* format_time as a function of its argument: the segment length is any
\* number of minutes up to MaxMinutes, and the one step is line 123.
InitFormatTime ==
    /\ pc = "format_time"
    /\ segment_length \in 0..MaxMinutes
    /\ segment_time = <<>>
    /\ exitCode = -1
    /\ console = Report("", 0, 0)
    /\ folder_per_split = FALSE
    /\ ffmpeg_found = TRUE
    /\ titlesFile = NoFile
    /\ backupFile = NoFile
    /\ inputDir = NoDir
    /\ splitDir = NoSplit
    /\ completedDir = NoDir
    /\ video_data = <<>>
    /\ self_video_data = <<>>
    /\ idx = 1
    /\ processed = 0
    /\ failed = 0
    /\ atLoad = Persisted
    /\ trace = <<>>
    /\ runsLog = <<>>

\* Line 123: segment_time = format_time(segment_length).
ApplyFormatTime ==
    /\ pc = "format_time"
    /\ segment_time' = format_time(segment_length)
    /\ pc' = "formatted"
    /\ UNCHANGED <<ffmpeg_found, segment_length, exitCode, console,
                   folder_per_split, titlesFile, backupFile, inputDir, splitDir,
                   completedDir, video_data, self_video_data, idx, processed,
                   failed, atLoad, trace, runsLog>>

NextFormatTime == ApplyFormatTime

SpecFormatTime == InitFormatTime /\ [][NextFormatTime]_vars

\* The same program on an input directory that holds more than videos.
SpecDiscovery == InitDiscovery /\ [][Next]_vars

\* ----------------------------------------------------------------- claims
\* The step just taken visited an entry with one of these outcomes.
Visits(outcomes) ==
    /\ Len(trace') = Len(trace) + 1
    /\ trace'[Len(trace')].outcome \in outcomes

ToolFailures == {"nonzero_exit", "launch_error"}
Succeeded == {"moved", "move_failed", "moved_save_failed", "move_failed_save_failed"}

\* Entry number j of the loaded list has been visited by the loop.
Visited(j) == \E m \in 1..Len(trace) : trace[m].i = j

\* C1 (as amended): when ffmpeg reports failure for an entry (non-zero exit or
\* launch error), that step leaves the input directory, the completed
\* directory, the in-memory list and the titles file as they were, adds exactly
\* one to failed, leaves processed alone, and the loop goes on to the entry
\* right after it; a run that reaches the summary has visited every entry.
C1_ToolFailureIsolated ==
    /\ [][Visits(ToolFailures) =>
        /\ SourceExists /\ HasBaseName
        /\ inputDir' = inputDir
        /\ completedDir' = completedDir
        /\ self_video_data' = self_video_data
        /\ titlesFile' = titlesFile
        /\ failed' = failed + 1
        /\ processed' = processed
        /\ pc' = "loop" /\ idx' = idx + 1 /\ video_data' = video_data]_vars
    /\ [](console.msg = "summary" /\ pc = "menu" =>
            \A j \in 1..Len(video_data) : Visited(j))

\* C1 witness: a tool failure was recorded and a later entry was visited after it.
C1_Witness ==
    \E k \in 1..Len(trace) : \E m \in 1..Len(trace) :
        /\ trace[k].outcome \in ToolFailures
        /\ m > k
        /\ trace[m].i > trace[k].i
        /\ trace[k].filename \in inputDir.files

\* C1 as stated: once the run is over, every entry after an entry whose tool
\* invocation failed has been visited.
C1_EveryLaterEntryVisited ==
    pc # "loop" =>
        \A k \in 1..Len(trace) :
            trace[k].outcome \in ToolFailures =>
                \A j \in (trace[k].i + 1)..Len(video_data) : Visited(j)

\* C2 (as amended): an entry with an empty or absent base_name whose source
\* file is in the input directory halts the run there with exit status 1: it
\* is not counted, nothing on disk or in the list changes, and no step follows
\* the exit, so no later entry is validated, segmented, moved or removed.
C2_EmptyBaseNameHalts ==
    [][/\ pc # "exited"
       /\ (InLoop /\ SourceExists /\ ~HasBaseName) =>
            /\ pc' = "exited" /\ exitCode' = 1
            /\ console'.msg = "base_name_empty"
            /\ processed' = processed /\ failed' = failed
            /\ idx' = idx
            /\ self_video_data' = self_video_data
            /\ Persisted' = Persisted]_vars

\* C2 witness: the run halted at an empty base_name after an earlier entry, with
\* a later entry left unvisited.
C2_Witness ==
    /\ pc = "exited" /\ exitCode = 1
    /\ console.msg = "base_name_empty"
    /\ Len(trace) >= 2
    /\ idx < Len(video_data)

\* C2 as stated: every visited entry with an empty base_name halted the run,
\* whether or not its source file exists.
C2_EmptyBaseNameAlwaysHalts ==
    \A k \in 1..Len(trace) :
        Get(video_data[trace[k].i], "base_name") = "" =>
            /\ trace[k].outcome = "base_name_empty"
            /\ pc = "exited" /\ exitCode = 1

\* The entries of the titles file on disk (none when it does not parse).
OnDisk ==
    IF titlesFile.exists /\ WellFormed(titlesFile.content)
    THEN Parse(titlesFile.content) ELSE <<>>
InManifest(v) == \E n \in 1..Len(OnDisk) : OnDisk[n] = v
NameInManifest(f) == \E n \in 1..Len(OnDisk) : OnDisk[n].filename = f

\* The run has just aborted on an empty base_name, at position idx.
AbortedOnBaseName == pc = "exited" /\ console.msg = "base_name_empty"

\* A visited entry before the abort whose segmentation succeeded has filename f.
SucceededEarlier(f) ==
    \E k \in 1..Len(trace) : trace[k].outcome \in Succeeded /\ trace[k].filename = f

\* C3 (as amended): when a batch aborts on an empty-base_name entry at position
\* k, every earlier entry whose segmentation succeeded is absent from the titles
\* file on disk, and its source file is in the completed directory if its move
\* succeeded; the invalid entry and the entries after it, unless they carry the
\* filename of an earlier successfully segmented entry, are still in the titles
\* file on disk and their source files are where they were when the run began
\* (the invalid entry's is in the input directory).
C3_AbortAfterProcessing ==
    AbortedOnBaseName =>
        /\ \A k \in 1..Len(trace) :
            /\ trace[k].outcome \in Succeeded => ~NameInManifest(trace[k].filename)
            /\ trace[k].outcome = "moved" => trace[k].filename \in completedDir.files
        /\ \A j \in idx..Len(video_data) :
            ~SucceededEarlier(video_data[j].filename) =>
                /\ InManifest(video_data[j])
                /\ (video_data[j].filename \in inputDir.files)
                    <=> (video_data[j].filename \in atLoad.input.files)
        /\ video_data[idx].filename \in inputDir.files

\* C3 witness: the abort came after an entry that was segmented and moved.
C3_Witness ==
    /\ AbortedOnBaseName
    /\ \E k \in 1..Len(trace) : trace[k].outcome = "moved"
    /\ \E k \in 1..Len(trace) : trace[k].outcome = "move_failed"

\* C3 as stated: at the abort every earlier entry whose segmentation succeeded
\* has its source file in the completed directory and its entry absent from the
\* titles file on disk; the invalid entry and all entries after it are still in
\* the titles file on disk and their source files, if they were in the input
\* directory when the run began, still are.
C3_AbortAfterFullProcessing ==
    AbortedOnBaseName =>
        /\ \A k \in 1..Len(trace) :
            trace[k].outcome \in Succeeded =>
                /\ trace[k].filename \in completedDir.files
                /\ ~NameInManifest(trace[k].filename)
        /\ \A j \in idx..Len(video_data) :
            /\ InManifest(video_data[j])
            /\ video_data[j].filename \in atLoad.input.files
                => video_data[j].filename \in inputDir.files

\* C4: when ffmpeg succeeds and the move fails, that step removes the entry
\* from the in-memory list and from the titles file on disk, adds exactly one
\* to processed, leaves failed alone, leaves the source file where it was (the
\* completed directory gains at most a copy of it), and the loop goes on to
\* the next entry.
C4_MoveFailureStillReconciles ==
    [][Visits({"move_failed"}) =>
        LET f == video_data[idx].filename IN
        /\ \A n \in 1..Len(self_video_data') : self_video_data'[n].filename # f
        /\ Len(self_video_data') =
             Len(self_video_data) -
               Cardinality({n \in 1..Len(self_video_data) : self_video_data[n].filename = f})
        /\ titlesFile'.exists /\ WellFormed(titlesFile'.content)
        /\ Parse(titlesFile'.content) = self_video_data'
        /\ processed' = processed + 1
        /\ failed' = failed
        /\ inputDir' = inputDir
        /\ completedDir' \in {completedDir, DirOf(completedDir.files \cup {f})}
        /\ pc' = "loop" /\ idx' = idx + 1 /\ video_data' = video_data]_vars

\* C4 witness: a move failed after a successful segmentation and delete_entry
\* removed the entry.
C4_Witness ==
    \E k \in 1..Len(trace) :
        /\ trace[k].outcome = "move_failed"
        /\ trace[k].ret = "True"
        /\ trace[k].filename \in inputDir.files
        /\ ~NameInManifest(trace[k].filename)

\* C5: an entry whose source file is not in the input directory is counted in
\* failed (exactly one more), ffmpeg is not run for it, the titles file, its
\* backup, the in-memory list and the three directories are left as they were,
\* and the loop goes on to the next entry.
C5_MissingSourceCounted ==
    [][(InLoop /\ ~SourceExists) =>
        /\ Visits({"not_found"})
        /\ trace'[Len(trace')].ffmpeg = 0
        /\ failed' = failed + 1
        /\ processed' = processed
        /\ Persisted' = Persisted
        /\ self_video_data' = self_video_data
        /\ pc' = "loop" /\ idx' = idx + 1 /\ video_data' = video_data]_vars

\* C5 witness: an entry was found missing and a later entry was visited.
C5_Witness ==
    \E k \in 1..Len(trace) : \E m \in 1..Len(trace) :
        /\ trace[k].outcome = "not_found"
        /\ trace[k].filename \notin atLoad.input.files
        /\ NameInManifest(trace[k].filename)
        /\ m > k

\* Run number r of split_videos loaded the titles file without raising.
LoadedRun(r) == runsLog[r].msg \in {"summary", "no_videos", "base_name_empty"}

\* C6: every successful load leaves the backup file holding the content the
\* titles file had at load time; the titles file is not changed by the load;
\* the backup is not changed by the delete_entry calls of the run, and it is
\* written again by the next load.
C6_BackupIsLoadSnapshot ==
    /\ pc = "loop" =>
        /\ atLoad.titles.exists
        /\ backupFile = FileOf(atLoad.titles.content)
        /\ trace = <<>> => titlesFile = atLoad.titles
    /\ \A r \in 1..Len(runsLog) :
        LoadedRun(r) =>
            /\ runsLog[r].start.titles.exists
            /\ runsLog[r].end.backup = FileOf(runsLog[r].start.titles.content)

\* C6 witness: two runs loaded the titles file, the first removed an entry from
\* it, and the backup after each of them is the titles file as that run found it.
C6_Witness ==
    /\ Len(runsLog) = 2
    /\ LoadedRun(1) /\ LoadedRun(2)
    /\ runsLog[1].end.titles # runsLog[1].start.titles
    /\ runsLog[1].end.backup = runsLog[1].start.titles
    /\ runsLog[2].end.backup = runsLog[2].start.titles
    /\ runsLog[2].end.backup # runsLog[1].end.backup

\* The step just taken called delete_entry for the current entry.
Deletes == Visits({"moved", "move_failed"})
Matches(f) == {n \in 1..Len(self_video_data) : self_video_data[n].filename = f}
Without(seq, n) == SubSeq(seq, 1, n - 1) \o SubSeq(seq, n + 1, Len(seq))

\* C7: delete_entry(filename) on a list with no entry of that filename returns
\* False, does not call _save, and leaves the titles file and the in-memory
\* list as they were.
C7_NoMatchNoWrite ==
    [][(Deletes /\ Matches(video_data[idx].filename) = {}) =>
        /\ trace'[Len(trace')].ret = "False"
        /\ ~trace'[Len(trace')].wrote
        /\ titlesFile' = titlesFile
        /\ self_video_data' = self_video_data]_vars

\* C7 witness: delete_entry was called for an entry already removed and
\* returned False.
C7_Witness ==
    \E k \in 1..Len(trace) :
        /\ trace[k].outcome \in {"moved", "move_failed"}
        /\ trace[k].ret = "False"
        /\ ~trace[k].wrote

\* C8: delete_entry(filename) on a list with exactly one entry of that filename
\* makes the list one shorter (that entry gone, the others in order), returns
\* True, and has saved when it returns: parsing the titles file gives the new
\* in-memory list.
C8_OneMatchRemovedAndSaved ==
    [][(Deletes /\ Cardinality(Matches(video_data[idx].filename)) = 1) =>
        LET n == CHOOSE n \in Matches(video_data[idx].filename) : TRUE IN
        /\ Len(self_video_data') = Len(self_video_data) - 1
        /\ self_video_data' = Without(self_video_data, n)
        /\ trace'[Len(trace')].ret = "True"
        /\ titlesFile'.exists /\ WellFormed(titlesFile'.content)
        /\ Parse(titlesFile'.content) = self_video_data']_vars

\* C8 witness: a delete_entry call removed one entry of several and saved.
C8_Witness ==
    /\ pc = "loop"
    /\ Len(trace) = 1
    /\ trace[1].ret = "True" /\ trace[1].wrote
    /\ Len(video_data) >= 2
    /\ Len(self_video_data) = Len(video_data) - 1
    /\ OnDisk = self_video_data

\* C9 as stated: while a batch runs, the titles file holds a complete document,
\* either the one that was loaded or the current in-memory list, also after a
\* write that failed.
C9_SaveAtomic ==
    pc = "loop" => titlesFile \in {atLoad.titles, save(self_video_data)}

\* A run that left nothing to do: it printed the summary with no failure, the
\* titles file holds the empty list and the input directory is empty.
FullySuccessful(r) ==
    /\ runsLog[r].msg = "summary"
    /\ runsLog[r].failed = 0
    /\ runsLog[r].processed >= 1
    /\ runsLog[r].end.titles = save(<<>>)
    /\ runsLog[r].end.input = DirOf({})

\* C10 (as amended): split_videos run again after a fully successful run leaves
\* the titles file and the input, split and completed directories unchanged
\* and visits no entry; it overwrites the backup file with a copy of the empty
\* titles file, and it returns at "No videos found" without printing the
\* summary of processed and failed counts.
C10_RerunAfterSuccess ==
    \A r \in 2..Len(runsLog) :
        FullySuccessful(r - 1) =>
            /\ runsLog[r].start = runsLog[r - 1].end
            /\ runsLog[r].msg = "no_videos"
            /\ runsLog[r].loaded = 0
            /\ runsLog[r].end.titles = runsLog[r].start.titles
            /\ runsLog[r].end.input = runsLog[r].start.input
            /\ runsLog[r].end.split = runsLog[r].start.split
            /\ runsLog[r].end.completed = runsLog[r].start.completed
            /\ runsLog[r].end.backup = runsLog[r].start.titles
            /\ (r = Len(runsLog) /\ pc = "menu") =>
                /\ Persisted = runsLog[r].end
                /\ trace = <<>>
                /\ console.msg \in {"no_videos", "no_video_files"}

\* C10 witness: a second run has finished after a fully successful first run.
C10_Witness ==
    /\ Len(runsLog) = 2
    /\ FullySuccessful(1)
    /\ pc = "menu"

\* C10 as stated: the second run changes nothing that is persisted, the backup
\* file included, and reports zero processed and zero failed.
C10_RerunIsNoOp ==
    \A r \in 2..Len(runsLog) :
        FullySuccessful(r - 1) =>
            /\ runsLog[r].end = runsLog[r].start
            /\ runsLog[r].msg = "summary"
            /\ runsLog[r].processed = 0
            /\ runsLog[r].failed = 0

\* C11: ffmpeg's availability is checked at startup, before the menu: when it
\* is not available the process never reaches the menu or a batch, it exits
\* with status 1, and the titles file, the backup, the three directories and
\* the source files are as they were at startup (no run of split_videos, no
\* backup, no directory made, no ffmpeg command).
C11_ToolCheckedFirst ==
    ~ffmpeg_found =>
        /\ pc \in {"main", "exited"}
        /\ pc = "exited" => (exitCode = 1 /\ console.msg = "ffmpeg_missing")
        /\ Persisted = atLoad
        /\ ~backupFile.exists /\ ~splitDir.exists /\ ~completedDir.exists
        /\ runsLog = <<>> /\ trace = <<>> /\ segment_time = <<>>

\* C11 witness: the process has exited for want of ffmpeg, with a titles file
\* and source files present.
C11_Witness ==
    /\ ~ffmpeg_found
    /\ pc = "exited" /\ exitCode = 1
    /\ titlesFile.exists /\ OnDisk # <<>>
    /\ inputDir.files # {}

LastRun == runsLog[Len(runsLog)]

\* C12: a batch requested while the titles file is absent ends with the
\* "not found" report and nothing else: every run that started without a
\* titles file is such a run and never enters the loop; when the report has
\* just been printed the process is in the menu, the titles file, the
\* backup, the split and completed directories and the source files are as
\* they were when the batch was requested, no backup or directory exists (no
\* load can have succeeded before), and no entry was visited.
C12_TitlesNotFoundIsHarmless ==
    /\ \A r \in 1..Len(runsLog) :
          ~runsLog[r].start.titles.exists <=> runsLog[r].msg = "titles_not_found"
    /\ pc = "loop" => atLoad.titles.exists
    /\ console.msg = "titles_not_found" =>
          /\ pc = "menu"
          /\ runsLog # <<>> /\ LastRun.msg = "titles_not_found"
          /\ Persisted = atLoad
          /\ ~titlesFile.exists /\ ~backupFile.exists
          /\ ~splitDir.exists /\ ~completedDir.exists
          /\ trace = <<>> /\ segment_time = <<>>

\* C12 witness: back in the menu after a batch was requested without a titles
\* file, with source files in the input directory.
C12_Witness ==
    /\ pc = "menu"
    /\ runsLog # <<>> /\ LastRun.msg = "titles_not_found"
    /\ console.msg = "titles_not_found"
    /\ inputDir.files # {}

IsDigit(c) == \E d \in 0..9 : DigitChar[d + 1] = c
DigitValue(c) == CHOOSE d \in 0..9 : DigitChar[d + 1] = c

\* The number a string of decimal digits denotes.
RECURSIVE ValueOf(_)
ValueOf(str) ==
    IF str = <<>> THEN 0
    ELSE 10 * ValueOf(SubSeq(str, 1, Len(str) - 1)) + DigitValue(str[Len(str)])

\* C13: for every m >= 0, format_time(m) is an hours field, ":", a minutes
\* field, ":00", where the hours field is the decimal of m div 60 padded with
\* zeros to two digits (and not padded beyond that), and the minutes field
\* is exactly two digits denoting m mod 60, a value in 00..59.
C13_FormatTime ==
    pc = "formatted" =>
        LET t == segment_time
            n == Len(t)
            hh == SubSeq(t, 1, n - 6)
            mm == SubSeq(t, n - 4, n - 3)
        IN  /\ n >= 8
            /\ SubSeq(t, n - 5, n - 5) = <<":">>
            /\ SubSeq(t, n - 2, n) = <<":", "0", "0">>
            /\ \A i \in 1..Len(hh) : IsDigit(hh[i])
            /\ Len(hh) > 2 => hh[1] # "0"
            /\ ValueOf(hh) = segment_length \div 60
            /\ \A i \in 1..2 : IsDigit(mm[i])
            /\ ValueOf(mm) = segment_length % 60
            /\ ValueOf(mm) \in 0..59

\* C13 witness: a length of at least a hundred hours with a one-digit
\* minutes remainder, so that the hours field has three digits and the
\* minutes field is padded.
C13_Witness ==
    /\ pc = "formatted"
    /\ segment_length \div 60 >= 100
    /\ segment_length % 60 \in 1..9
    /\ Len(segment_time) = 9

\* The names of DiscoveryNames that are regular files with a recognized
\* extension in any spelling of case, listed in name order.
VideosInNameOrder == <<"B.MKV", "a.mp4", "b.mkv">>
Rank(f) == CHOOSE i \in 1..Len(VideosInNameOrder) : VideosInNameOrder[i] = f

\* The step is a choice of option 1 of the menu.
Discovers == pc = "menu" /\ pc' = "menu" /\ runsLog' = runsLog /\ console' # console

\* C14: a discovery step that finds a video leaves the titles file holding
\* exactly one entry for each regular file of the input directory with a
\* recognized extension in any case, in name order, each with empty base_name
\* and directory_name; a discovery step that finds none leaves the titles
\* file as it was (absent if it was absent). Nothing else on disk changes
\* either way.
C14_Discovery ==
    [][Discovers =>
         LET videos == {f \in inputDir.files :
                           \E i \in 1..Len(VideosInNameOrder) : VideosInNameOrder[i] = f}
         IN  /\ console'.msg \in {"generated", "no_video_files"}
             /\ <<backupFile, inputDir, splitDir, completedDir>>'
                   = <<backupFile, inputDir, splitDir, completedDir>>
             /\ videos = {} => (console'.msg = "no_video_files" /\ titlesFile' = titlesFile)
             /\ videos # {} =>
                   /\ console'.msg = "generated"
                   /\ titlesFile'.exists
                   /\ WellFormed(titlesFile'.content)
                   /\ LET m == Parse(titlesFile'.content)
                      IN  /\ {m[i].filename : i \in 1..Len(m)} = videos
                          /\ Len(m) = Cardinality(videos)
                          /\ \A i, j \in 1..Len(m) :
                                i < j => Rank(m[i].filename) < Rank(m[j].filename)
                          /\ \A i \in 1..Len(m) :
                                m[i].base_name = "" /\ m[i].directory_name = ""]_vars

\* C14 witness: discovery on a directory holding every name, the text file,
\* the subdirectory and the hidden file included, has written three entries
\* over a titles file that a batch had loaded before.
C14_Witness ==
    /\ pc = "menu"
    /\ console.msg = "generated"
    /\ inputDir.files = DiscoveryNames
    /\ backupFile.exists
    /\ Len(Parse(titlesFile.content)) = 3

\* The list the titles file held when the current (or last) batch loaded it.
Loaded == Parse(atLoad.titles.content)
BatchOver(msg) == pc # "loop" /\ runsLog # <<>> /\ LastRun.msg = msg

\* The titles file of the batch: as it is while the loop runs, as the batch
\* left it once the batch is over.
BatchTitles == IF pc = "loop" THEN titlesFile ELSE LastRun.end.titles
BatchOnDisk ==
    IF BatchTitles.exists /\ WellFormed(BatchTitles.content)
    THEN Parse(BatchTitles.content) ELSE <<>>

\* C15: during and after a batch, the k-th visit is of the k-th entry of the
\* titles file as loaded, whatever was removed meanwhile: the list the loop
\* walks stays the loaded one, the loop is about to visit entry number
\* (visits so far + 1), a batch that reaches the summary has visited every
\* loaded entry exactly once, and a batch that aborted on an empty base_name
\* has visited the entries up to that one exactly once.
C15_VisitsInManifestOrder ==
    (pc = "loop" \/ BatchOver("summary") \/ BatchOver("base_name_empty")) =>
        /\ video_data = Loaded
        /\ Len(trace) <= Len(Loaded)
        /\ \A k \in 1..Len(trace) :
              trace[k].i = k /\ trace[k].filename = Loaded[k].filename
        /\ pc = "loop" => idx = Len(trace) + 1
        /\ BatchOver("summary") => Len(trace) = Len(Loaded)
        /\ BatchOver("base_name_empty") =>
              /\ trace # <<>>
              /\ \A k \in 1..Len(trace) :
                    trace[k].outcome = "base_name_empty" <=> k = Len(trace)

\* C15 witness: a batch over three entries reached the summary after its
\* first entry was removed from the titles file.
C15_Witness ==
    /\ BatchOver("summary")
    /\ Len(Loaded) = 3
    /\ trace[1].outcome = "moved" /\ trace[1].wrote
    /\ Len(self_video_data) < 3

\* C16: at every point between two entries of a batch and at its end (summary
\* or abort), the titles file on disk is a complete document whose content is
\* the list the VideoTitles object holds; every visit that removed an entry
\* wrote the file in that same visit.
C16_DiskEqualsMemory ==
    (pc = "loop" \/ BatchOver("summary") \/ BatchOver("base_name_empty")) =>
        /\ BatchTitles.exists
        /\ WellFormed(BatchTitles.content)
        /\ Parse(BatchTitles.content) = self_video_data
        /\ \A k \in 1..Len(trace) : trace[k].ret = "True" => trace[k].wrote

\* C16 witness: between the second and the third entry of a batch whose first
\* entry was removed and written out, with entries still in the list.
C16_Witness ==
    /\ pc = "loop" /\ idx = 3
    /\ trace[1].wrote
    /\ self_video_data # <<>>
    /\ Len(self_video_data) < Len(video_data)

\* The entries of seq whose filename is not f, in their order in seq.
RECURSIVE KeepOthers(_, _)
KeepOthers(seq, f) ==
    IF seq = <<>> THEN <<>>
    ELSE IF Head(seq).filename = f THEN KeepOthers(Tail(seq), f)
         ELSE <<Head(seq)>> \o KeepOthers(Tail(seq), f)

\* The loaded list after the delete_entry calls of the first k visits.
RECURSIVE AfterVisits(_)
AfterVisits(k) ==
    IF k = 0 THEN Loaded
    ELSE IF trace[k].outcome \in {"moved", "move_failed"}
         THEN KeepOthers(AfterVisits(k - 1), trace[k].filename)
         ELSE AfterVisits(k - 1)

\* C17: each delete_entry(filename) of a batch leaves exactly the entries of
\* other filenames, in their original relative order, so every entry of that
\* filename is gone at once: while the batch runs and after it, the list in
\* memory and on disk is the loaded list without every entry whose filename
\* belongs to a visit that succeeded, and when the loop comes to a later entry
\* of such a filename that entry is already absent (its delete_entry, if it
\* is called, returns False).
C17_DeleteRemovesAllMatches ==
    (pc = "loop" \/ BatchOver("summary") \/ BatchOver("base_name_empty")) =>
        /\ self_video_data = AfterVisits(Len(trace))
        /\ BatchOnDisk = AfterVisits(Len(trace))
        /\ \A k \in 1..Len(trace) :
              trace[k].outcome \in {"moved", "move_failed"} =>
                 /\ \A n \in 1..Len(self_video_data) :
                       self_video_data[n].filename # trace[k].filename
                 /\ \A j \in (k + 1)..Len(trace) :
                       trace[j].filename = trace[k].filename => trace[j].ret # "True"

\* C17 witness: the first two loaded entries share a filename, the third has
\* another; the first succeeded, and the loop stands before the second with
\* only the third left in the list.
C17_Witness ==
    /\ pc = "loop" /\ idx = 2
    /\ Len(Loaded) = 3
    /\ Loaded[1].filename = Loaded[2].filename
    /\ Loaded[3].filename # Loaded[1].filename
    /\ trace[1].outcome = "moved"
    /\ self_video_data = <<Loaded[3]>>

\* The visits of entry number j that ran ffmpeg.
Invocations(j) == {m \in 1..Len(trace) : trace[m].i = j /\ trace[m].ffmpeg = 1}

NoRetries ==
    /\ \A j \in 1..MaxEntries + 1 : Cardinality(Invocations(j)) <= 1
    /\ \A m \in 1..Len(trace) :
          trace[m].outcome \in ToolFailures =>
              \A n \in 1..Len(trace) : n # m => trace[n].i # trace[m].i
    /\ Cardinality(UNION {Invocations(j) : j \in 1..MaxEntries + 1}) <= Len(video_data)

\* C18: within a batch ffmpeg is run at most once for each entry, an entry
\* whose run failed is not visited again in that batch, the number of runs of
\* ffmpeg never exceeds the number of loaded entries, and, every call
\* returning, a batch that has entered the loop leaves it at the summary or
\* at the abort on an empty base_name.
C18_NoRetriesAndTermination ==
    /\ []NoRetries
    /\ (pc = "loop") ~> (BatchOver("summary") \/ BatchOver("base_name_empty"))

\* C18 witness: a batch of three entries reached the summary although ffmpeg
\* failed for one of them.
C18_Witness ==
    /\ BatchOver("summary")
    /\ Len(trace) = 3
    /\ \E m \in 1..3 : trace[m].outcome \in ToolFailures
    /\ Cardinality(UNION {Invocations(j) : j \in 1..3}) = 3

\* C19: every visited entry adds exactly one to processed + failed, whatever
\* ffmpeg, the move and the write of the titles file did: inside the loop
\* processed + failed is the number of entries visited so far, and the summary
\* reports processed + failed equal to the number of entries loaded.
C19_CountedExactlyOnce ==
    /\ pc = "loop" => processed + failed = Len(trace)
    /\ BatchOver("summary") =>
          /\ LastRun.processed + LastRun.failed = LastRun.loaded
          /\ pc = "menu" /\ console.msg = "summary" =>
                console.processed + console.failed = Len(Loaded)

\* The loaded filenames are pairwise distinct.
DistinctFilenames ==
    \A i, j \in 1..Len(Loaded) : i # j => Loaded[i].filename # Loaded[j].filename

\* Entry number j was visited and its segmentation succeeded / it was counted
\* as failed.
SucceededAt(j) ==
    \E k \in 1..Len(trace) : trace[k].i = j /\ trace[k].outcome \in Succeeded
FailedAt(j) ==
    \E k \in 1..Len(trace) :
        trace[k].i = j /\ trace[k].outcome \in ToolFailures \cup {"not_found"}

\* The first j loaded entries that were counted as failed, in loaded order.
RECURSIVE FailedEntries(_)
FailedEntries(j) ==
    IF j = 0 THEN <<>>
    ELSE FailedEntries(j - 1) \o (IF FailedAt(j) THEN <<Loaded[j]>> ELSE <<>>)

\* C20: in a batch over a titles file of pairwise distinct filenames, an entry
\* is missing from the list (in memory or on disk) only if its segmentation
\* succeeded in this batch; a source file has left the input directory or
\* arrived in the completed directory since the load only if the segmentation
\* of its entry succeeded; and at the summary the titles file on disk is the
\* loaded entries that were counted as failed, in their loaded order.
C20_OnlySuccessRemoves ==
    ((pc = "loop" \/ BatchOver("summary") \/ BatchOver("base_name_empty"))
        /\ DistinctFilenames) =>
        /\ \A j \in 1..Len(Loaded) :
              (~(\E n \in 1..Len(BatchOnDisk) : BatchOnDisk[n] = Loaded[j])
                 \/ ~\E n \in 1..Len(self_video_data) : self_video_data[n] = Loaded[j])
              => SucceededAt(j)
        /\ \A f \in (completedDir.files \ atLoad.completed.files)
                       \cup (atLoad.input.files \ inputDir.files) :
              \E j \in 1..Len(Loaded) : Loaded[j].filename = f /\ SucceededAt(j)
        /\ BatchOver("summary") => BatchOnDisk = FailedEntries(Len(Loaded))

\* C20 witness: a batch over two entries of different filenames reached the
\* summary; ffmpeg failed for the first, the second was split and moved, and
\* the titles file holds the first alone.
C20_Witness ==
    /\ BatchOver("summary")
    /\ Len(Loaded) = 2 /\ DistinctFilenames
    /\ trace[1].outcome \in ToolFailures
    /\ trace[2].outcome = "moved"
    /\ Loaded[2].filename \in completedDir.files
    /\ BatchOnDisk = <<Loaded[1]>>
====
